---- MODULE Spec2Model ----
(***************************************************************************)
(* State-machine model of src/script.js: the slider, the navigation        *)
(* toggle with its debounced resize handler, the accordion, the contact-   *)
(* form submit gate and the focus-visible polyfill.  Every handler of the  *)
(* DOMContentLoaded callback is one action; the browser (events, timers,   *)
(* media queries, user answers) is the environment.  Time is counted in    *)
(* milliseconds and advances one millisecond per Elapse step.              *)
(***************************************************************************)
EXTENDS Integers, Sequences, FiniteSets, TLC

\* ---------------------------------------------------------------- bounds
MaxSlides ==
  3

MaxAutoplay ==
  2

MaxLiveTimers ==
  2

MaxWait ==
  2

MaxCalls ==
  5

MaxItems ==
  3

MaxTelLen ==
  2

MaxEmailLen ==
  5

\* ------------------------------------------------------------- variables
VARIABLES
  pc,               \* "markup" before DOMContentLoaded ran, "ready" after, "unloaded" after a native submit
  lastOp,           \* the handler that ran last, with the values it started from
  prevOp,           \* the handler that ran before lastOp
  \* slider
  nSlides,          \* slides.length (= dots.length, one dot per slide)
  dataAutoplay,     \* Number(slidesWrap.dataset.autoplay), 0 when absent
  slideActive,      \* slide i carries class "active"
  slideAriaHidden,  \* slide i's aria-hidden attribute ("null" when not set)
  dotActive,        \* dot i carries class "active"
  current,          \* let current
  timer,            \* let timer: 0 is null, otherwise an interval id
  intervals,        \* the browser's live interval timers: id -> ms until it is due
  isPaused,         \* let isPaused
  reducedMotion,    \* matchMedia('(prefers-reduced-motion: reduce)').matches
  docHidden,        \* document.hidden
  hovering,         \* the pointer is over .slides
  touching,         \* .slides got a touchstart and no touchend since
  startX,           \* addTouch's let startX
  startTime,        \* addTouch's let startTime
  sinceManual,      \* ms since a manual control last restarted autoplay, counted up to autoplayMs
  \* navigation toggle
  navExpanded,      \* .nav-toggle's aria-expanded attribute ("null" when not set)
  navDisplay,       \* #main-nav's style.display: "" or "block"
  navLabel,         \* .nav-toggle's aria-label
  innerWidth,       \* window.innerWidth
  \* one debounce(fn, wait) closure
  wait,             \* the wait argument
  t,                \* let t: 0 is undefined, otherwise a timeout id
  timeouts,         \* the browser's pending timeouts: id -> [left, args, call]
  invoked,          \* the arguments of the wrapper's invocations so far
  delivered,        \* the calls of fn so far: [args, call, since]
  sinceLast,        \* ms since the wrapper's last invocation, counted up to wait
  burst,            \* every gap between consecutive invocations so far was < wait
  \* accordion
  accSize,          \* accSize[g]: the number of .accordion-item of group g
  accExpanded,      \* accExpanded[g][k]: the trigger's aria-expanded ("null" when not set)
  accHidden,        \* accHidden[g][k]: the panel's hidden property
  focus,            \* the trigger that has focus, <<g, k>>, or <<0, 0>>
  \* focus-visible polyfill
  mouseDown,        \* let mouseDown
  focusVisible,     \* the triggers that carry class "focus-visible"
  pointerSinceTab,  \* a pointer-down happened and no Tab key since
  arrival,          \* how focus came to where it is: [via, afterPointer]
  \* contact form
  telPresent,       \* the form holds input[name="tel"]
  telValue,         \* its value, a sequence of characters
  emailPresent,     \* the form holds input[type="email"]
  emailValue,       \* its value
  formResult        \* what the last submit attempt did

sliderVars ==
  <<nSlides, dataAutoplay, slideActive, slideAriaHidden, dotActive, current,
    timer, intervals, isPaused, reducedMotion, docHidden, hovering, touching,
    startX, startTime, sinceManual>>

navVars ==
  <<navExpanded, navDisplay, navLabel, innerWidth>>

debounceVars ==
  <<wait, t, timeouts, invoked, delivered, sinceLast, burst>>

focusVars ==
  <<mouseDown, focusVisible, pointerSinceTab, arrival>>

accVars ==
  <<accSize, accExpanded, accHidden, focus, focusVars>>

formVars ==
  <<telPresent, telValue, emailPresent, emailValue, formResult>>

vars ==
  <<pc, lastOp, prevOp, sliderVars, navVars, debounceVars, accVars, formVars>>

\* --------------------------------------------------------------- helpers
\* JavaScript's % : the remainder takes the sign of the dividend (-0 is 0).
JsRem(a, n) ==
  IF a >= 0 THEN a % n ELSE 0 - ((0 - a) % n)

\* The record kept of a handler run: its name, its argument, and the values
\* of current and isPaused when it started.
Op(name, arg) ==
  [op |-> name, arg |-> arg, cur |-> current, paused |-> isPaused]

\* the handlers whose run is still told apart one run later
Remembered ==
  {"next", "prev", "ArrowLeft", "ArrowRight", "mouseleave", "visibility"}

\* kept by the slider's handlers: the last run, and of the run before it what
\* is remembered
Record(name, arg) ==
  /\ lastOp' = Op(name, arg)
  /\ prevOp' = IF lastOp.op \in Remembered
                 THEN [op |-> lastOp.op, cur |-> lastOp.cur]
                 ELSE [op |-> "other", cur |-> 0]

\* kept by the other components' handlers: the last run
Note(name, arg) ==
  /\ lastOp' = Op(name, arg)
  /\ UNCHANGED prevOp

SlideIdx ==
  0 .. (nSlides - 1)

\* Array.prototype.findIndex over the slides' "active" class: -1 when none.
FindIndex(active) ==
  IF \E i \in DOMAIN active : active[i]
    THEN CHOOSE i \in DOMAIN active :
           active[i] /\ \A j \in DOMAIN active : active[j] => i <= j
    ELSE -1

\* x || 0 on numbers: 0 replaces only a falsy x, and the only falsy index is 0.
OrZero(x) ==
  IF x = 0 THEN 0 ELSE x

\* let current = slides.findIndex(s => s.classList.contains('active')) || 0
InitialCurrent ==
  OrZero(FindIndex(slideActive))

\* const autoplayMs = Number(slidesWrap?.dataset?.autoplay) || 7000
autoplayMs ==
  IF dataAutoplay = 0 THEN 7000 ELSE dataAutoplay

\* ---------------------------------------------------------------- slider
\* The markup holds one .dot per .slide (the dots mirror the slides 1:1) and
\* at least one slide; every dot's data-to is the index of a slide.
setActiveNoRemove(index) ==
  /\ slideActive' = [i \in SlideIdx |-> slideActive[i] \/ i = index]
  /\ slideAriaHidden' = [i \in SlideIdx |-> IF i = index THEN "false" ELSE slideAriaHidden[i]]
  /\ dotActive' = [i \in DOMAIN dotActive |-> i = index]
  /\ current' = index

setActive(index) ==
  /\ slideActive' = [i \in SlideIdx |-> i = index]
  /\ slideAriaHidden' = [i \in SlideIdx |-> IF i = index THEN "false" ELSE "true"]
  /\ dotActive' = [i \in DOMAIN dotActive |-> i = index]
  /\ current' = index

next ==
  setActive(JsRem(current + 1, nSlides))

prev ==
  setActive(JsRem(current - 1 + nSlides, nSlides))

\* setInterval returns an id no live timer has.
FreshId(iv) ==
  CHOOSE id \in 1 .. (Cardinality(DOMAIN iv) + 1) : id \notin DOMAIN iv

\* stopAuto as a function of (timer, intervals)
AfterStop(tm, iv) ==
  IF tm # 0
    THEN [timer |-> 0, intervals |-> [k \in (DOMAIN iv) \ {tm} |-> iv[k]]]
    ELSE [timer |-> tm, intervals |-> iv]

stopAuto ==
  /\ timer' = AfterStop(timer, intervals).timer
  /\ intervals' = AfterStop(timer, intervals).intervals

\* timer = setInterval(..., autoplayMs) among the live timers iv.  The guard
\* keeps the number of live timers finite; it never binds while startAuto
\* clears the previous timer first.
Arm(tm, iv) ==
  LET id == FreshId(iv)
  IN  /\ Cardinality(DOMAIN iv) < MaxLiveTimers + 1
      /\ timer' = id
      /\ intervals' = [k \in (DOMAIN iv) \cup {id} |-> IF k = id THEN autoplayMs ELSE iv[k]]

startAutoNoStop ==
  IF reducedMotion
    THEN UNCHANGED <<timer, intervals>>
    ELSE Arm(timer, intervals)

startAuto ==
  IF reducedMotion
    THEN UNCHANGED <<timer, intervals>>
    ELSE Arm(AfterStop(timer, intervals).timer, AfterStop(timer, intervals).intervals)

Ready ==
  pc = "ready"

sliderEnv ==
  <<nSlides, dataAutoplay, reducedMotion, docHidden, hovering, touching, startX, startTime>>

\* A manual control that restarts autoplay starts the count of the
\* milliseconds since; under reduced motion startAuto returns at line 77.
manualRestart ==
  sinceManual' = IF reducedMotion THEN sinceManual ELSE 0

\* document.addEventListener('DOMContentLoaded', ...): what the callback itself
\* changes: the slider's state (lines 49-57) and its "init" (lines 127-128), and
\* every accordion trigger's aria-expanded (line 142).  The handlers it
\* registers are the actions below.
DOMContentLoaded ==
  /\ pc = "markup"
  /\ pc' = "ready"
  /\ setActive(InitialCurrent)
  /\ startAuto
  /\ isPaused' = FALSE
  /\ accExpanded' = [g \in DOMAIN accExpanded |->
                       [k \in DOMAIN accExpanded[g] |-> "false"]]
  /\ sinceManual' = autoplayMs
  /\ Record("load", 0)
  /\ UNCHANGED sliderEnv
  /\ UNCHANGED <<navVars, debounceVars, accSize, accHidden, focus, focusVars, formVars>>

\* dots.forEach(d => d.addEventListener('click', ...)), data-to in range
DotClick(to) ==
  /\ Ready
  /\ setActive(to)
  /\ startAuto
  /\ manualRestart
  /\ Record("dot", to)
  /\ UNCHANGED <<pc, isPaused, sliderEnv>>
  /\ UNCHANGED <<navVars, debounceVars, accVars, formVars>>

\* the next button's listener without its startAuto()
NextClickNoRestart ==
  /\ Ready
  /\ next
  /\ manualRestart
  /\ Record("next", 0)
  /\ UNCHANGED <<pc, timer, intervals, isPaused, sliderEnv>>
  /\ UNCHANGED <<navVars, debounceVars, accVars, formVars>>

NextClick ==
  /\ Ready
  /\ next
  /\ startAuto
  /\ manualRestart
  /\ Record("next", 0)
  /\ UNCHANGED <<pc, isPaused, sliderEnv>>
  /\ UNCHANGED <<navVars, debounceVars, accVars, formVars>>

PrevClick ==
  /\ Ready
  /\ prev
  /\ startAuto
  /\ manualRestart
  /\ Record("prev", 0)
  /\ UNCHANGED <<pc, isPaused, sliderEnv>>
  /\ UNCHANGED <<navVars, debounceVars, accVars, formVars>>

\* document keydown, lines 121-124
KeyDown(key) ==
  /\ Ready
  /\ IF key = "ArrowLeft" THEN prev /\ startAuto /\ manualRestart
     ELSE IF key = "ArrowRight" THEN next /\ startAuto /\ manualRestart
     ELSE UNCHANGED <<slideActive, slideAriaHidden, dotActive, current, timer, intervals,
                      sinceManual>>
  /\ Record(key, 0)
  /\ UNCHANGED <<pc, isPaused, sliderEnv>>
  /\ UNCHANGED <<navVars, debounceVars, accVars, formVars>>

MouseEnter ==
  /\ Ready
  /\ ~hovering
  /\ hovering' = TRUE
  /\ isPaused' = TRUE
  /\ Record("mouseenter", 0)
  /\ UNCHANGED <<pc, nSlides, dataAutoplay, slideActive, slideAriaHidden, dotActive,
                 current, timer, intervals, reducedMotion, docHidden, touching,
                 startX, startTime, sinceManual>>
  /\ UNCHANGED <<navVars, debounceVars, accVars, formVars>>

MouseLeave ==
  /\ Ready
  /\ hovering
  /\ hovering' = FALSE
  /\ isPaused' = FALSE
  /\ Record("mouseleave", 0)
  /\ UNCHANGED <<pc, nSlides, dataAutoplay, slideActive, slideAriaHidden, dotActive,
                 current, timer, intervals, reducedMotion, docHidden, touching,
                 startX, startTime, sinceManual>>
  /\ UNCHANGED <<navVars, debounceVars, accVars, formVars>>

\* touchstart at touches[0].clientX = x while Date.now() = now
TouchStart(x, now) ==
  /\ Ready
  /\ touching' = TRUE
  /\ startX' = x
  /\ startTime' = now
  /\ isPaused' = TRUE
  /\ Record("touchstart", x)
  /\ UNCHANGED <<pc, nSlides, dataAutoplay, slideActive, slideAriaHidden, dotActive,
                 current, timer, intervals, reducedMotion, docHidden, hovering,
                 sinceManual>>
  /\ UNCHANGED <<navVars, debounceVars, accVars, formVars>>

\* Math.abs
Abs(x) ==
  IF x < 0 THEN 0 - x ELSE x

\* the touchend listener with its threshold including 40
TouchEndFrom40(x, now) ==
  LET dx == x - startX
      dt == now - startTime
  IN  /\ Ready
      /\ touching' = FALSE
      /\ IF Abs(dx) >= 40 /\ dt < 1000
           THEN IF dx < 0 THEN next ELSE prev
           ELSE UNCHANGED <<slideActive, slideAriaHidden, dotActive, current>>
      /\ isPaused' = FALSE
      /\ Record("touchend", <<dx, dt>>)
      /\ UNCHANGED <<pc, nSlides, dataAutoplay, timer, intervals, reducedMotion,
                     docHidden, hovering, startX, startTime, sinceManual>>
      /\ UNCHANGED <<navVars, debounceVars, accVars, formVars>>

\* touchend at changedTouches[0].clientX = x while Date.now() = now
TouchEnd(x, now) ==
  LET dx == x - startX
      dt == now - startTime
  IN  /\ Ready
      /\ touching' = FALSE
      /\ IF Abs(dx) > 40 /\ dt < 1000
           THEN IF dx < 0 THEN next ELSE prev
           ELSE UNCHANGED <<slideActive, slideAriaHidden, dotActive, current>>
      /\ isPaused' = FALSE
      /\ Record("touchend", <<dx, dt>>)
      /\ UNCHANGED <<pc, nSlides, dataAutoplay, timer, intervals, reducedMotion,
                     docHidden, hovering, startX, startTime, sinceManual>>
  /\ UNCHANGED <<navVars, debounceVars, accVars, formVars>>

AutoTickIgnoringPause(id) ==
  /\ Ready
  /\ id \in DOMAIN intervals
  /\ intervals[id] = 0
  /\ next
  /\ intervals' = [intervals EXCEPT ![id] = autoplayMs]
  /\ Record("tick", id)
  /\ UNCHANGED <<pc, timer, isPaused, sinceManual, sliderEnv>>
  /\ UNCHANGED <<navVars, debounceVars, accVars, formVars>>

\* the setInterval callback of timer id: () => { if (!isPaused) next(); }
AutoTick(id) ==
  /\ Ready
  /\ id \in DOMAIN intervals
  /\ intervals[id] = 0
  /\ IF ~isPaused THEN next
     ELSE UNCHANGED <<slideActive, slideAriaHidden, dotActive, current>>
  /\ intervals' = [intervals EXCEPT ![id] = autoplayMs]
  /\ Record("tick", id)
  /\ UNCHANGED <<pc, timer, isPaused, sinceManual, sliderEnv>>
  /\ UNCHANGED <<navVars, debounceVars, accVars, formVars>>

\* document visibilitychange, lines 198-201
VisibilityChange ==
  /\ Ready
  /\ docHidden' = ~docHidden
  /\ IF docHidden' THEN stopAuto ELSE startAuto
  /\ Record("visibility", 0)
  /\ UNCHANGED <<pc, nSlides, dataAutoplay, slideActive, slideAriaHidden, dotActive,
                 current, isPaused, reducedMotion, hovering, touching,
                 startX, startTime, sinceManual>>
  /\ UNCHANGED <<navVars, debounceVars, accVars, formVars>>

\* the user changes the reduced-motion preference; no handler listens
MotionPrefChange ==
  /\ Ready
  /\ reducedMotion' = ~reducedMotion
  /\ Record("motionpref", 0)
  /\ UNCHANGED <<pc, nSlides, dataAutoplay, slideActive, slideAriaHidden, dotActive,
                 current, timer, intervals, isPaused, docHidden, hovering, touching,
                 startX, startTime, sinceManual>>
  /\ UNCHANGED <<navVars, debounceVars, accVars, formVars>>

\* one millisecond passes for every live interval timer
SliderElapse ==
  /\ Ready
  /\ \E id \in DOMAIN intervals : intervals[id] > 0
  /\ intervals' = [id \in DOMAIN intervals |->
                     IF intervals[id] > 0 THEN intervals[id] - 1 ELSE 0]
  /\ sinceManual' = IF sinceManual < autoplayMs THEN sinceManual + 1 ELSE sinceManual
  /\ UNCHANGED <<pc, lastOp, prevOp, nSlides, dataAutoplay, slideActive, slideAriaHidden,
                 dotActive, current, timer, isPaused, reducedMotion, docHidden,
                 hovering, touching, startX, startTime>>
  /\ UNCHANGED <<navVars, debounceVars, accVars, formVars>>

\* the swipes the gesture specification tries: dx around both thresholds
SwipeDx ==
  {-50, -41, -40, 20, 40, 41}

SwipeDt ==
  {300, 999, 1000}

\* where and when its touches start
TouchXs ==
  {0, 100}

TouchTimes ==
  {0, 5000}

\* the swipes <<dx, dt>> the slider specification tries, one of each outcome
\* of the touchend listener (forward, back, too short, too slow); the gesture
\* specification tries every swipe around the thresholds
SwipeCases ==
  {<<-50, 300>>, <<41, 300>>, <<20, 300>>, <<-50, 1000>>}

Keys ==
  {"ArrowLeft", "ArrowRight", "Escape"}

\* ------------------------------------------------- debounce (lines 15-21)
NoArgs ==
  "none"

\* setTimeout returns an id no pending timeout has (nor the stale handle).
FreshTimeout(tm, to) ==
  CHOOSE id \in 1 .. (Cardinality(DOMAIN to) + 2) : id \notin (DOMAIN to) \cup {tm}

\* clearTimeout(tm): the pending timeouts without tm
Cleared(tm, to) ==
  [k \in (DOMAIN to) \ {tm} |-> to[k]]

\* setTimeout(() => fn.apply(this, args), wait) among the pending timeouts to
Scheduled(id, to, args, call) ==
  [k \in (DOMAIN to) \cup {id} |->
     IF k = id THEN [left |-> wait, args |-> args, call |-> call] ELSE to[k]]

\* the wrapper without its clearTimeout(t)
debouncedNoClear(args, call) ==
  /\ t' = FreshTimeout(t, timeouts)
  /\ timeouts' = Scheduled(FreshTimeout(t, timeouts), timeouts, args, call)

\* the wrapper: clearTimeout(t); t = setTimeout(() => fn.apply(this, args), wait)
debounced(args, call) ==
  /\ t' = FreshTimeout(t, Cleared(t, timeouts))
  /\ timeouts' = Scheduled(FreshTimeout(t, Cleared(t, timeouts)), Cleared(t, timeouts), args, call)

Min(a, b) ==
  IF a < b THEN a ELSE b

\* one millisecond passes for every pending timeout
TimeoutsElapse ==
  /\ (\E id \in DOMAIN timeouts : timeouts[id].left > 0) \/ sinceLast < wait
  /\ timeouts' = [id \in DOMAIN timeouts |->
                    [timeouts[id] EXCEPT !.left = IF @ > 0 THEN @ - 1 ELSE 0]]
  /\ sinceLast' = Min(sinceLast + 1, wait)
  /\ UNCHANGED <<pc, lastOp, prevOp, sliderVars, navVars, wait, t, invoked, delivered,
                 burst, accVars, formVars>>

\* An invocation of the wrapper with arguments a, fn being a recorder of its calls.
Invoke(a) ==
  /\ Len(invoked) < MaxCalls
  /\ debounced(a, Len(invoked) + 1)
  /\ invoked' = Append(invoked, a)
  /\ burst' = (burst /\ (invoked = <<>> \/ sinceLast < wait))
  /\ sinceLast' = 0
  /\ Note("invoke", Len(invoked) + 1)
  /\ UNCHANGED <<pc, sliderVars, navVars, wait, delivered, accVars, formVars>>

\* The timeout id is due: fn.apply(this, args) runs, fn being the recorder.
Deliver(id) ==
  /\ id \in DOMAIN timeouts
  /\ timeouts[id].left = 0
  /\ delivered' = Append(delivered, [args |-> timeouts[id].args,
                                     call |-> timeouts[id].call,
                                     since |-> sinceLast])
  /\ timeouts' = Cleared(id, timeouts)
  /\ Note("deliver", timeouts[id].call)
  /\ UNCHANGED <<pc, sliderVars, navVars, wait, t, invoked, sinceLast, burst,
                 accVars, formVars>>

\* ------------------------------------------- navigation toggle (lines 30-46)
\* navToggle click with the aria-expanded flag and the display swapped
NavToggleClickInverted ==
  /\ Ready
  /\ navExpanded' = (IF navExpanded = "true" THEN "false" ELSE "true")
  /\ navDisplay' = (IF navExpanded = "true" THEN "block" ELSE "")
  /\ navLabel' = (IF navExpanded = "true" THEN "OpenMenu" ELSE "CloseMenu")
  /\ Note("navtoggle", 0)
  /\ UNCHANGED <<pc, sliderVars, innerWidth, debounceVars, accVars, formVars>>

\* navToggle click, lines 33-38 ("OpenMenu" is the label that offers to open
\* the menu, "CloseMenu" the one that offers to close it)
NavToggleClick ==
  /\ Ready
  /\ navExpanded' = (IF navExpanded = "true" THEN "false" ELSE "true")
  /\ navDisplay' = (IF navExpanded = "true" THEN "" ELSE "block")
  /\ navLabel' = (IF navExpanded = "true" THEN "OpenMenu" ELSE "CloseMenu")
  /\ Note("navtoggle", 0)
  /\ UNCHANGED <<pc, sliderVars, innerWidth, debounceVars, accVars, formVars>>

\* a resize event at width w: the debounced wrapper is invoked with the event
Resize(w) ==
  /\ Ready
  /\ innerWidth' = w
  /\ debounced(NoArgs, 0)
  /\ sinceLast' = 0
  /\ Note("resize", w)
  /\ UNCHANGED <<pc, sliderVars, navExpanded, navDisplay, navLabel, wait, invoked,
                 delivered, burst, accVars, formVars>>

\* the resize callback with its width test including 900
ResizeFireFrom900(id) ==
  /\ Ready
  /\ id \in DOMAIN timeouts
  /\ timeouts[id].left = 0
  /\ IF innerWidth >= 900
       THEN navDisplay' = "" /\ navExpanded' = "false"
       ELSE UNCHANGED <<navDisplay, navExpanded>>
  /\ timeouts' = Cleared(id, timeouts)
  /\ Note("resizefire", innerWidth)
  /\ UNCHANGED <<pc, sliderVars, navLabel, innerWidth, wait, t, invoked, delivered,
                 sinceLast, burst, accVars, formVars>>

\* the debounced resize callback fires, lines 40-45
ResizeFire(id) ==
  /\ Ready
  /\ id \in DOMAIN timeouts
  /\ timeouts[id].left = 0
  /\ IF innerWidth > 900
       THEN navDisplay' = "" /\ navExpanded' = "false"
       ELSE UNCHANGED <<navDisplay, navExpanded>>
  /\ timeouts' = Cleared(id, timeouts)
  /\ Note("resizefire", innerWidth)
  /\ UNCHANGED <<pc, sliderVars, navLabel, innerWidth, wait, t, invoked, delivered,
                 sinceLast, burst, accVars, formVars>>

\* ------------------------------------------------ accordion (lines 131-168)
AccGroups ==
  {1, 2}

ItemIdx(g) ==
  0 .. (accSize[g] - 1)

\* the click listener without its "close all in this accordion" loop
accActivateNoClose(g, k) ==
  IF accExpanded[g][k] # "true"
    THEN /\ accExpanded' = [accExpanded EXCEPT ![g][k] = "true"]
         /\ accHidden' = [accHidden EXCEPT ![g][k] = FALSE]
    ELSE UNCHANGED <<accExpanded, accHidden>>

\* the click listener opening item k whether or not it was expanded
accActivateAlwaysOpen(g, k) ==
  /\ accExpanded' = [accExpanded EXCEPT ![g] =
                       [i \in ItemIdx(g) |-> IF i = k THEN "true" ELSE "false"]]
  /\ accHidden' = [accHidden EXCEPT ![g] = [i \in ItemIdx(g) |-> ~(i = k)]]

\* the btn click listener of item k of group g, lines 144-158: close all of
\* the group, then open item k unless it was expanded
accActivate(g, k) ==
  /\ accExpanded' = [accExpanded EXCEPT ![g] =
                       [i \in ItemIdx(g) |->
                          IF i = k /\ accExpanded[g][k] # "true" THEN "true" ELSE "false"]]
  /\ accHidden' = [accHidden EXCEPT ![g] =
                     [i \in ItemIdx(g) |-> ~(i = k /\ accExpanded[g][k] # "true")]]

\* a pointer click on the trigger of item k of group g
AccClick(g, k) ==
  /\ Ready
  /\ accActivate(g, k)
  /\ Note("accclick", <<g, k>>)
  /\ UNCHANGED <<pc, sliderVars, navVars, debounceVars, accSize, focus, focusVars, formVars>>

\* ------------------------------- focus-visible polyfill (lines 204-216)
NoElement ==
  <<0, 0>>

\* the elements that take focus: every accordion's triggers
Triggers ==
  {e \in AccGroups \X (0 .. (MaxItems - 1)) : e[2] < accSize[e[1]]}

\* the focusin listener adding the class whatever the flag
focusinAlways(cls, e, md) ==
  cls \cup {e}

\* the focusin listener on target e, lines 210-212, md being mouseDown
focusin(cls, e, md) ==
  IF ~md THEN cls \cup {e} ELSE cls

\* the focusout listener on target e, lines 213-215
focusout(cls, e) ==
  cls \ {e}

\* The class after focus moved from one element to another: focusout on the
\* one that lost it, then focusin on the one that got it; no event when focus
\* stays where it is.
AfterFocusMove(cls, from, to, md) ==
  IF to = from THEN cls
  ELSE LET out == IF from = NoElement THEN cls ELSE focusout(cls, from)
       IN  IF to = NoElement THEN out ELSE focusin(out, to, md)

\* focus moves to element to, by the means via, the flag being md
MoveFocus(to, via, md, pointed) ==
  /\ focus' = to
  /\ focusVisible' = AfterFocusMove(focusVisible, focus, to, md)
  /\ arrival' = IF to = focus THEN arrival
                ELSE IF to = NoElement THEN [via |-> "none", afterPointer |-> FALSE]
                ELSE [via |-> via, afterPointer |-> pointed]

AccKeys ==
  {"Enter", " ", "ArrowDown", "ArrowUp", "a"}

\* the arrow branches without the wrap-around
ArrowTargetNoWrap(g, k, key) ==
  IF key = "ArrowDown" THEN <<g, k + 1>>
  ELSE IF key = "ArrowUp" THEN <<g, k - 1>>
  ELSE <<g, k>>

\* where btn keydown's arrow branches send focus, lines 164-165
ArrowTarget(g, k, key) ==
  IF key = "ArrowDown" THEN <<g, JsRem(k + 1, accSize[g])>>
  ELSE IF key = "ArrowUp" THEN <<g, JsRem(k - 1 + accSize[g], accSize[g])>>
  ELSE <<g, k>>

\* keydown of a key other than Tab on the focused trigger k of group g: the
\* btn listener, lines 161-166 (Enter and Space run btn.click(), which runs
\* the click listener; the arrows call focus(), which fires focusout and
\* focusin), then the document's listener of line 207, which such a key
\* leaves idle
AccKeyDown(g, k, key) ==
  /\ Ready
  /\ focus = <<g, k>>
  /\ IF key \in {"Enter", " "}
       THEN accActivate(g, k)
       ELSE UNCHANGED <<accExpanded, accHidden>>
  /\ MoveFocus(ArrowTarget(g, k, key), "keyboard", mouseDown, pointerSinceTab)
  /\ Note(key, <<g, k>>)
  /\ UNCHANGED <<pc, sliderVars, navVars, debounceVars, accSize, mouseDown,
                 pointerSinceTab, formVars>>

\* keydown of Tab: the document's listener of lines 207-209 clears the flag,
\* then the browser moves focus to element to (a trigger, or an element that
\* is no trigger)
TabKey(to) ==
  /\ Ready
  /\ mouseDown' = FALSE
  /\ pointerSinceTab' = FALSE
  /\ MoveFocus(to, "keyboard", FALSE, FALSE)
  /\ Note("Tab", to)
  /\ UNCHANGED <<pc, sliderVars, navVars, debounceVars, accSize, accExpanded,
                 accHidden, formVars>>

\* mousedown on element to (or off every trigger): the document's listener of
\* line 206 sets the flag, then the browser gives to the focus
PointerDown(to) ==
  /\ Ready
  /\ mouseDown' = TRUE
  /\ pointerSinceTab' = TRUE
  /\ MoveFocus(to, "pointer", TRUE, TRUE)
  /\ Note("mousedown", to)
  /\ UNCHANGED <<pc, sliderVars, navVars, debounceVars, accSize, accExpanded,
                 accHidden, formVars>>

\* ------------------------------------------- form validation (lines 171-195)
Digits ==
  {"0", "1", "2", "3", "4", "5", "6", "7", "8", "9"}

\* The characters of the class \s; a character that cannot stand in a string
\* here is written as its code point.
Whitespace ==
  {" ", "\t", "\n", "\f", "\r", "U+000B", "U+00A0", "U+1680", "U+2000", "U+2001",
   "U+2002", "U+2003", "U+2004", "U+2005", "U+2006", "U+2007", "U+2008", "U+2009",
   "U+200A", "U+2028", "U+2029", "U+202F", "U+205F", "U+3000", "U+FEFF"}

TelChars ==
  {"0", "-", " ", "a"}

EmailChars ==
  {"a", "@", ".", "\f"}

\* /^[\d\-\s]+$/.test(s)
TelPattern(s) ==
  /\ Len(s) >= 1
  /\ \A i \in 1 .. Len(s) : s[i] \in Digits \cup {"-"} \cup Whitespace

\* a character of the class [^\s@]
NotSpaceNotAt(c) ==
  c \notin Whitespace \cup {"@"}

\* /^[^\s@]+@[^\s@]+\.[^\s@]+$/.test(s): s splits as X "@" Y "." Z with X, Y, Z
\* non-empty runs of [^\s@]
EmailPattern(s) ==
  \E at \in 2 .. Len(s) : \E dot \in (at + 2) .. (Len(s) - 1) :
    /\ s[at] = "@"
    /\ s[dot] = "."
    /\ \A i \in 1 .. (at - 1) : NotSpaceNotAt(s[i])
    /\ \A i \in (at + 1) .. Len(s) : NotSpaceNotAt(s[i])

NoAttempt ==
  [prevented |-> FALSE, alerts |-> <<>>, focused |-> "none", emailTested |-> FALSE,
   confirmShown |-> FALSE, accepted |-> FALSE, attempted |-> FALSE]

\* the submit listener that does not return after the telephone alert
SubmitOutcomeNoReturn(ok) ==
  LET telBad == telPresent /\ telValue # <<>> /\ ~TelPattern(telValue)
      emailBad == emailPresent /\ emailValue # <<>> /\ ~EmailPattern(emailValue)
  IN  IF emailBad
        THEN [prevented |-> TRUE,
              alerts |-> IF telBad THEN <<"tel", "email">> ELSE <<"email">>,
              focused |-> "email",
              emailTested |-> TRUE, confirmShown |-> FALSE, accepted |-> FALSE, attempted |-> TRUE]
      ELSE [prevented |-> telBad \/ ~ok,
            alerts |-> IF telBad THEN <<"tel">> ELSE <<>>,
            focused |-> IF telBad THEN "tel" ELSE "none",
            emailTested |-> TRUE, confirmShown |-> TRUE, accepted |-> ok, attempted |-> TRUE]

\* the submit listener, lines 173-194, ok being the user's answer to confirm()
SubmitOutcome(ok) ==
  IF telPresent /\ telValue # <<>> /\ ~TelPattern(telValue)
    THEN [prevented |-> TRUE, alerts |-> <<"tel">>, focused |-> "tel",
          emailTested |-> FALSE, confirmShown |-> FALSE, accepted |-> FALSE, attempted |-> TRUE]
  ELSE IF emailPresent /\ emailValue # <<>> /\ ~EmailPattern(emailValue)
    THEN [prevented |-> TRUE, alerts |-> <<"email">>, focused |-> "email",
          emailTested |-> TRUE, confirmShown |-> FALSE, accepted |-> FALSE, attempted |-> TRUE]
  ELSE [prevented |-> ~ok, alerts |-> <<>>, focused |-> "none",
        emailTested |-> TRUE, confirmShown |-> TRUE, accepted |-> ok, attempted |-> TRUE]

\* a submit attempt; the page is left when the native submission proceeds
Submit(ok) ==
  /\ Ready
  /\ formResult' = SubmitOutcome(ok)
  /\ pc' = (IF formResult'.prevented THEN pc ELSE "unloaded")
  /\ UNCHANGED <<lastOp, prevOp, sliderVars, navVars, debounceVars, accVars, telPresent, telValue,
                 emailPresent, emailValue>>

\* the user types character c at the end of the telephone field
TypeTel(c) ==
  /\ Ready
  /\ telPresent
  /\ Len(telValue) < MaxTelLen
  /\ telValue' = Append(telValue, c)
  /\ formResult' = NoAttempt
  /\ UNCHANGED <<pc, lastOp, prevOp, sliderVars, navVars, debounceVars, accVars,
                 telPresent, emailPresent, emailValue>>

\* the user types character c at the end of the email field
TypeEmail(c) ==
  /\ Ready
  /\ emailPresent
  /\ Len(emailValue) < MaxEmailLen
  /\ emailValue' = Append(emailValue, c)
  /\ formResult' = NoAttempt
  /\ UNCHANGED <<pc, lastOp, prevOp, sliderVars, navVars, debounceVars, accVars,
                 telPresent, telValue, emailPresent>>

\* ------------------------------------------------------ initial states
\* Each specification varies the markup of one component and fixes the rest.
StartOps ==
  /\ pc = "markup"
  /\ lastOp = [op |-> "none", arg |-> 0, cur |-> 0, paused |-> FALSE]
  /\ prevOp = [op |-> "none", cur |-> 0]

SliderState0 ==
  /\ slideAriaHidden = [i \in SlideIdx |-> "null"]
  /\ dotActive = slideActive
  /\ current = 0
  /\ timer = 0
  /\ intervals = <<>>
  /\ isPaused = FALSE
  /\ hovering = FALSE
  /\ touching = FALSE
  /\ startX = 0
  /\ startTime = 0
  /\ sinceManual = 0

SliderMarkup ==
  /\ nSlides \in 1 .. MaxSlides
  /\ dataAutoplay \in 1 .. MaxAutoplay
  /\ slideActive \in [SlideIdx -> BOOLEAN]
  /\ reducedMotion \in BOOLEAN
  /\ docHidden \in BOOLEAN
  /\ SliderState0

SliderFixed ==
  /\ nSlides = 1
  /\ dataAutoplay = 1
  /\ slideActive = [i \in SlideIdx |-> TRUE]
  /\ reducedMotion = TRUE
  /\ docHidden = FALSE
  /\ SliderState0

Widths ==
  {600, 900, 901}

NavMarkup ==
  /\ navExpanded \in {"null", "false"}
  /\ navDisplay = ""
  /\ navLabel \in {"null", "OpenMenu"}
  /\ innerWidth \in Widths

NavFixed ==
  /\ navExpanded = "false"
  /\ navDisplay = ""
  /\ navLabel = "OpenMenu"
  /\ innerWidth = 600

DebounceState0 ==
  /\ t = 0
  /\ timeouts = <<>>
  /\ invoked = <<>>
  /\ delivered = <<>>
  /\ burst = TRUE

\* addEventListener('resize', debounce(..., 200)), line 45
ResizeWait ==
  200

DebounceResize ==
  /\ wait = ResizeWait
  /\ sinceLast = ResizeWait
  /\ DebounceState0

DebounceAny ==
  /\ wait \in 1 .. MaxWait
  /\ sinceLast = 0
  /\ DebounceState0

\* no element has focus or the class; let mouseDown = false, line 205
FocusState0 ==
  /\ focus = NoElement
  /\ mouseDown = FALSE
  /\ focusVisible = {}
  /\ pointerSinceTab = FALSE
  /\ arrival = [via |-> "none", afterPointer |-> FALSE]

AccMarkup ==
  /\ accSize \in [AccGroups -> 1 .. MaxItems]
  /\ accExpanded = [g \in AccGroups |-> [k \in ItemIdx(g) |-> "null"]]
  /\ accHidden \in [AccGroups -> UNION {[0 .. (n - 1) -> BOOLEAN] : n \in 1 .. MaxItems}]
  /\ \A g \in AccGroups : DOMAIN accHidden[g] = ItemIdx(g)
  /\ FocusState0

AccFixed ==
  /\ accSize = [g \in AccGroups |-> 1]
  /\ accExpanded = [g \in AccGroups |-> [k \in ItemIdx(g) |-> "null"]]
  /\ accHidden = [g \in AccGroups |-> [k \in ItemIdx(g) |-> TRUE]]
  /\ FocusState0

\* accordions of every size with their panels hidden
FocusMarkup ==
  /\ accSize \in [AccGroups -> 1 .. MaxItems]
  /\ accExpanded = [g \in AccGroups |-> [k \in ItemIdx(g) |-> "null"]]
  /\ accHidden = [g \in AccGroups |-> [k \in ItemIdx(g) |-> TRUE]]
  /\ FocusState0

FormMarkup ==
  /\ telPresent \in BOOLEAN
  /\ emailPresent \in BOOLEAN
  /\ telValue = <<>>
  /\ emailValue = <<>>
  /\ formResult = NoAttempt

FormFixed ==
  /\ telPresent = TRUE
  /\ emailPresent = TRUE
  /\ telValue = <<>>
  /\ emailValue = <<>>
  /\ formResult = NoAttempt

\* ------------------------------------------------------ specifications
SliderInit ==
  StartOps /\ SliderMarkup /\ NavFixed /\ DebounceResize /\ AccFixed /\ FormFixed

SliderNext ==
  \/ DOMContentLoaded
  \/ \E to \in SlideIdx : DotClick(to)
  \/ NextClick
  \/ PrevClick
  \/ \E key \in Keys : KeyDown(key)
  \/ MouseEnter
  \/ MouseLeave
  \/ TouchStart(0, 0)
  \/ \E c \in SwipeCases : TouchEnd(startX + c[1], startTime + c[2])
  \/ \E id \in DOMAIN intervals : AutoTick(id)
  \/ VisibilityChange
  \/ MotionPrefChange
  \/ SliderElapse

Spec ==
  SliderInit /\ [][SliderNext]_vars

\* The slider under touch and hover alone, with every swipe around the
\* thresholds of the touchend listener.
GestureNext ==
  \/ DOMContentLoaded
  \/ MouseEnter
  \/ MouseLeave
  \/ \E x \in TouchXs, now \in TouchTimes : TouchStart(x, now)
  \/ \E dx \in SwipeDx, dt \in SwipeDt : TouchEnd(startX + dx, startTime + dt)
  \/ \E id \in DOMAIN intervals : AutoTick(id)
  \/ SliderElapse

GestureSpec ==
  SliderInit /\ [][GestureNext]_vars

NavInit ==
  StartOps /\ SliderFixed /\ NavMarkup /\ DebounceResize /\ AccFixed /\ FormFixed

NavNext ==
  \/ DOMContentLoaded
  \/ NavToggleClick
  \/ \E w \in Widths : Resize(w)
  \/ \E id \in DOMAIN timeouts : ResizeFire(id)
  \/ TimeoutsElapse

NavSpec ==
  NavInit /\ [][NavNext]_vars

DebounceInit ==
  StartOps /\ SliderFixed /\ NavFixed /\ DebounceAny /\ AccFixed /\ FormFixed

Args ==
  {"a", "b"}

DebounceNext ==
  \/ \E a \in Args : Invoke(a)
  \/ \E id \in DOMAIN timeouts : Deliver(id)
  \/ TimeoutsElapse

\* The browser's event loop lets time pass and runs every timeout that is due.
DebounceSpec ==
  /\ DebounceInit
  /\ [][DebounceNext]_vars
  /\ WF_vars(TimeoutsElapse)
  /\ WF_vars(\E id \in DOMAIN timeouts : Deliver(id))

AccInit ==
  StartOps /\ SliderFixed /\ NavFixed /\ DebounceResize /\ AccMarkup /\ FormFixed

AccNext ==
  \/ DOMContentLoaded
  \/ \E g \in AccGroups : \E k \in ItemIdx(g) : AccClick(g, k)
  \/ \E g \in AccGroups : \E k \in ItemIdx(g) : \E key \in AccKeys : AccKeyDown(g, k, key)
  \/ \E to \in Triggers \cup {NoElement} : TabKey(to)

AccSpec ==
  AccInit /\ [][AccNext]_vars

FocusInit ==
  StartOps /\ SliderFixed /\ NavFixed /\ DebounceResize /\ FocusMarkup /\ FormFixed

FocusKeys ==
  {"ArrowDown", "ArrowUp", "a"}

\* The polyfill under pointer presses, Tab and the keys that move focus
\* within an accordion.
FocusNext ==
  \/ DOMContentLoaded
  \/ \E to \in Triggers \cup {NoElement} : PointerDown(to)
  \/ \E to \in Triggers \cup {NoElement} : TabKey(to)
  \/ \E g \in AccGroups : \E k \in ItemIdx(g) : \E key \in FocusKeys : AccKeyDown(g, k, key)

FocusSpec ==
  FocusInit /\ [][FocusNext]_vars

FormInit ==
  StartOps /\ SliderFixed /\ NavFixed /\ DebounceResize /\ AccFixed /\ FormMarkup

FormNext ==
  \/ DOMContentLoaded
  \/ \E c \in TelChars : TypeTel(c)
  \/ \E c \in EmailChars : TypeEmail(c)
  \/ \E ok \in BOOLEAN : Submit(ok)

FormSpec ==
  FormInit /\ [][FormNext]_vars

\* ------------------------------------------------------- slider claims
ActiveSlides ==
  {i \in SlideIdx : slideActive[i]}

ActiveDots ==
  {i \in DOMAIN dotActive : dotActive[i]}

\* C1: in every state after initialization exactly one slide is active, it
\* is the slide at index current, and 0 <= current < number of slides.
C1_SliderInvariant ==
  pc # "markup" =>
    /\ current >= 0
    /\ current < nSlides
    /\ ActiveSlides = {current}

\* C2: initialization sets current to the index of the first slide that
\* carries the active marker, and to 0 when no slide carries it.
C2_InitialCurrent ==
  [][(pc = "markup" /\ pc' = "ready") =>
       IF ActiveSlides = {}
         THEN current' = 0
         ELSE /\ current' \in ActiveSlides
              /\ \A j \in ActiveSlides : current' <= j]_vars

\* C3: after setActive(i) with a valid index i, from any prior state, exactly
\* one slide is active (aria-hidden "false", every other slide "true") and
\* exactly one dot is active, both at position i, and current = i.
MarkedExactlyAt(i) ==
  /\ ActiveSlides = {i}
  /\ \A j \in SlideIdx : slideAriaHidden[j] = (IF j = i THEN "false" ELSE "true")
  /\ ActiveDots = {i}
  /\ current = i

SteppingOps ==
  {"next", "prev", "ArrowLeft", "ArrowRight"}

C3_SetActiveExactlyOne ==
  /\ lastOp.op = "dot" => MarkedExactlyAt(lastOp.arg)
  /\ lastOp.op \in SteppingOps => (current \in SlideIdx /\ MarkedExactlyAt(current))

C3_Witness ==
  /\ lastOp.op = "dot"
  /\ lastOp.arg = 2
  /\ lastOp.cur = -1
  /\ nSlides = 3

\* C4: from every value of current reachable after initialization, next()
\* followed by prev() returns current to that value, and so does prev()
\* followed by next().
C4_RoundTrip ==
  (\/ prevOp.op \in {"next", "ArrowRight"} /\ lastOp.op \in {"prev", "ArrowLeft"}
   \/ prevOp.op \in {"prev", "ArrowLeft"} /\ lastOp.op \in {"next", "ArrowRight"})
    => current = prevOp.cur

\* C5: a timer tick that fires while isPaused is true leaves the active index
\* alone; a tick that fires once isPaused is false again advances it by
\* exactly one position modulo the slide count.
C5_TickRespectsPause ==
  lastOp.op = "tick" =>
    IF lastOp.paused
      THEN current = lastOp.cur
      ELSE current = (lastOp.cur + 1) % nSlides

C5_Witness ==
  /\ lastOp.op = "tick"
  /\ ~lastOp.paused
  /\ prevOp.op = "mouseleave"
  /\ nSlides = 3
  /\ lastOp.cur = 2
  /\ current = 0

\* C6: at most one autoplay interval timer is alive, and the timer handle is
\* non-null exactly when one is alive (and then it is that timer's id).
C6_SingleTimer ==
  /\ Cardinality(DOMAIN intervals) <= 1
  /\ timer # 0 <=> DOMAIN intervals # {}
  /\ timer # 0 => DOMAIN intervals = {timer}

C6_Witness ==
  /\ lastOp.op = "next"
  /\ prevOp.op = "visibility"
  /\ ~docHidden
  /\ lastOp.cur = -1
  /\ timer # 0

\* ---------------------------------------------------- accordion claims
OpenItems(g) ==
  {k \in ItemIdx(g) : ~accHidden[g][k] /\ accExpanded[g][k] = "true"}

\* C7: within one accordion group the number of open panels (panel not
\* hidden and trigger aria-expanded "true") is 0 or 1, never more.
C7_AccordionSingleOpen ==
  \A g \in AccGroups : Cardinality(OpenItems(g)) <= 1

C7_Witness ==
  /\ lastOp.op = " "
  /\ accSize[1] = 3
  /\ OpenItems(1) = {2}
  /\ accExpanded[2][0] = "false"
  /\ ~accHidden[2][0]

\* --------------------------------------------------- navigation claims
\* C8: the menu panel's display is "block" exactly when the toggle's
\* aria-expanded attribute is "true".
C8_NavMirrored ==
  navDisplay = "block" <=> navExpanded = "true"

C8_Witness ==
  /\ lastOp.op = "resizefire"
  /\ lastOp.arg = 901
  /\ navLabel = "CloseMenu"
  /\ navDisplay = ""
  /\ navExpanded = "false"

\* ----------------------------------------------------- debounce claims
\* C9: while every gap between consecutive invocations of the wrapper was
\* shorter than wait, fn is called at most once, with the arguments of the
\* final invocation and not before wait has elapsed since it, and after any
\* invocation of such a burst that one call eventually happens.
C9_Debounce ==
  /\ [](burst => /\ Len(delivered) <= 1
                 /\ \A i \in 1 .. Len(delivered) :
                      /\ delivered[i].call = Len(invoked)
                      /\ delivered[i].args = invoked[Len(invoked)]
                      /\ delivered[i].since >= wait)
  /\ (burst /\ invoked # <<>>) ~> (~burst \/ Len(delivered) = 1)

C9_Witness ==
  /\ burst
  /\ Len(invoked) = 5
  /\ invoked[4] # invoked[5]
  /\ Len(delivered) = 1
  /\ delivered[1].call = 5
  /\ wait = 2

\* ---------------------------------------------------------- form claims
TelBad ==
  /\ telPresent
  /\ telValue # <<>>
  /\ \E i \in 1 .. Len(telValue) :
       telValue[i] \notin Digits /\ telValue[i] # "-" /\ telValue[i] \notin Whitespace

\* local@domain.tld: one "@", no whitespace, something before the "@", and
\* after it a "." with something on both sides
EmailShaped(s) ==
  LET ats == {i \in 1 .. Len(s) : s[i] = "@"}
  IN  /\ Cardinality(ats) = 1
      /\ \A i \in 1 .. Len(s) : s[i] \notin Whitespace
      /\ \A at \in ats : /\ at > 1
                         /\ \E d \in (at + 2) .. (Len(s) - 1) : s[d] = "."

EmailBad ==
  emailPresent /\ emailValue # <<>> /\ ~EmailShaped(emailValue)

\* C10: a submit attempt stops at the first failing rule: a bad telephone
\* value blocks with one message and focus on the telephone field, without
\* the email check or the confirmation; otherwise a bad email value blocks
\* with one message and focus on the email field, without the confirmation;
\* otherwise the confirmation is shown and submission proceeds exactly when
\* it is accepted.
C10_SubmitGate ==
  formResult.attempted =>
    /\ IF TelBad
         THEN /\ formResult.prevented
              /\ formResult.alerts = <<"tel">>
              /\ formResult.focused = "tel"
              /\ ~formResult.emailTested
              /\ ~formResult.confirmShown
       ELSE IF EmailBad
         THEN /\ formResult.prevented
              /\ formResult.alerts = <<"email">>
              /\ formResult.focused = "email"
              /\ ~formResult.confirmShown
       ELSE /\ formResult.confirmShown
            /\ formResult.alerts = <<>>
            /\ formResult.prevented = ~formResult.accepted
    /\ pc = "unloaded" <=> ~formResult.prevented
    /\ ~formResult.prevented <=> (~TelBad /\ ~EmailBad /\ formResult.accepted)

C10_Witness ==
  /\ formResult.attempted
  /\ telValue = <<"0", "a">>
  /\ emailValue = <<"a", "@", "a", ".">>
  /\ formResult.alerts = <<"tel">>

\* ------------------------------------------------------ gesture claims
\* C11: on touch end, with dx the end position minus the start position and
\* dt the time since touch start, the slider is one step forward of where it
\* was when dx < -40 and dt < 1000, one step back when dx > 40 and
\* dt < 1000, and where it was otherwise (|dx| <= 40 or dt >= 1000); a
\* navigation leaves exactly the slide it moved to marked.
C11_SwipeDecision ==
  lastOp.op = "touchend" =>
    LET dx == lastOp.arg[1]
        dt == lastOp.arg[2]
    IN  IF dx < -40 /\ dt < 1000
          THEN /\ current = (lastOp.cur + 1) % nSlides
               /\ MarkedExactlyAt(current)
        ELSE IF dx > 40 /\ dt < 1000
          THEN /\ current = (lastOp.cur - 1) % nSlides
               /\ MarkedExactlyAt(current)
        ELSE current = lastOp.cur

\* a swipe of dx = -41 within a second has moved a slider of three slides
\* from its last slide to its first
C11_Witness ==
  /\ lastOp.op = "touchend"
  /\ lastOp.arg = <<-41, 999>>
  /\ nSlides = 3
  /\ lastOp.cur = 2
  /\ current = 0
  /\ startX = 100

\* ------------------------------------------------------ autoplay claims
ManualOps ==
  {"dot", "next", "prev", "ArrowLeft", "ArrowRight"}

\* the index a manual control moves the slider to
ManualTarget ==
  IF lastOp.op = "dot" THEN lastOp.arg
  ELSE IF lastOp.op \in {"next", "ArrowRight"} THEN (lastOp.cur + 1) % nSlides
  ELSE (lastOp.cur - 1) % nSlides

\* C12: after a manual control (dot click, next or prev button, ArrowLeft or
\* ArrowRight key) the slider is at the control's index and, when reduced
\* motion is not active, exactly one timer is alive, it is the one the handle
\* names, and what is left of its interval is the whole interval less the
\* time passed since the control; an automatic advance never comes less than
\* one whole interval after such a control.
C12_ManualRestartsPhase ==
  /\ lastOp.op \in ManualOps =>
        /\ MarkedExactlyAt(ManualTarget)
        /\ ~reducedMotion =>
              /\ timer # 0
              /\ DOMAIN intervals = {timer}
              /\ intervals[timer] = autoplayMs - sinceManual
  /\ lastOp.op = "tick" => sinceManual = autoplayMs

\* an automatic advance that followed an ArrowLeft key one interval of two
\* milliseconds later
C12_Witness ==
  /\ lastOp.op = "tick"
  /\ ~lastOp.paused
  /\ prevOp.op = "ArrowLeft"
  /\ ~reducedMotion
  /\ autoplayMs = 2
  /\ sinceManual = 2

\* C13: after the page has become hidden no autoplay timer is alive (so no
\* automatic advance happens until autoplay is started again); after the
\* page has become visible a timer is alive exactly when the reduced-motion
\* preference is not active.
C13_VisibilityGuard ==
  /\ (lastOp.op = "visibility" /\ docHidden) =>
        timer = 0 /\ intervals = <<>>
  /\ (lastOp.op = "visibility" /\ ~docHidden) =>
        IF reducedMotion
          THEN timer = 0 /\ intervals = <<>>
          ELSE timer # 0 /\ DOMAIN intervals = {timer}

\* C14: after autoplay was started (at initialization, by a manual control or
\* by the page becoming visible) while the reduced-motion preference is
\* active, no autoplay timer is running.
C14_ReducedMotionNoTimer ==
  ( /\ \/ lastOp.op = "load"
       \/ lastOp.op \in ManualOps
       \/ lastOp.op = "visibility" /\ ~docHidden
    /\ reducedMotion ) =>
    timer = 0 /\ intervals = <<>>

\* C15: the paused flag is true during the whole of a touch gesture and the
\* whole time the pointer is over the slider, however touch and hover events
\* interleave, and no autoplay tick advances the slide meanwhile.
C15_PausedWhileEngaged ==
  /\ (touching \/ hovering) => isPaused
  /\ (lastOp.op = "tick" /\ (touching \/ hovering)) => current = lastOp.cur

\* --------------------------------------------------- navigation claims
\* a step of the toggle's click listener
ToggleStep ==
  /\ lastOp'.op = "navtoggle"
  /\ UNCHANGED <<timeouts, sinceLast>>

\* a step in which the debounced resize callback fires
FireStep ==
  /\ lastOp'.op = "resizefire"
  /\ DOMAIN timeouts' # DOMAIN timeouts

\* C16: the panel's display and the toggle's aria-expanded change only in a
\* toggle activation, which flips the menu between open and closed, or in a
\* firing of the debounced resize callback at a width above 900, which leaves
\* the menu closed whatever it was; a firing at a width of 900 or less
\* changes neither; at most one firing is pending at any time, and a firing
\* comes no sooner than 200ms after the last resize event, with none left
\* pending, so resize events less than 200ms apart share one firing.
C16_NavTransitions ==
  /\ [][ /\ (navDisplay' # navDisplay \/ navExpanded' # navExpanded) =>
              (ToggleStep \/ (FireStep /\ innerWidth > 900))
         /\ ToggleStep =>
              /\ (navExpanded' = "true") = ~(navExpanded = "true")
              /\ navDisplay' = (IF navExpanded' = "true" THEN "block" ELSE "")
         /\ (FireStep /\ innerWidth > 900) =>
              navExpanded' = "false" /\ navDisplay' = ""
         /\ (FireStep /\ innerWidth <= 900) =>
              UNCHANGED <<navDisplay, navExpanded>> ]_vars
  /\ [](Cardinality(DOMAIN timeouts) <= 1)
  /\ [](lastOp.op = "resizefire" => sinceLast >= ResizeWait /\ timeouts = <<>>)

\* the callback fired at width 900 and left the menu open
C16_Witness ==
  /\ lastOp.op = "resizefire"
  /\ lastOp.arg = 900
  /\ navExpanded = "true"
  /\ navDisplay = "block"

\* C17: the toggle's label offers to close the menu exactly when the menu is
\* open, and offers to open it after a toggle activation has closed it.
C17_LabelMirrors ==
  /\ navLabel = "CloseMenu" <=> navExpanded = "true"
  /\ (lastOp.op = "navtoggle" /\ navExpanded # "true") => navLabel = "OpenMenu"

\* ---------------------------------------------------- accordion claims
ActivationOps ==
  {"accclick", "Enter", " "}

\* C18: activating the trigger of item k of a group (by click, Enter or
\* Space) leaves exactly item k of the group open when k was not open
\* before and no item of the group open when it was, every other item of the
\* group hidden with aria-expanded "false", and the other groups as they were.
C18_ActivationResult ==
  [][ lastOp'.op \in ActivationOps =>
        LET g == lastOp'.arg[1]
            k == lastOp'.arg[2]
            after == {i \in ItemIdx(g) : ~accHidden'[g][i] /\ accExpanded'[g][i] = "true"}
        IN  /\ after = (IF k \in OpenItems(g) THEN {} ELSE {k})
            /\ \A i \in ItemIdx(g) \ after :
                 accHidden'[g][i] /\ accExpanded'[g][i] = "false"
            /\ \A h \in AccGroups \ {g} :
                 accExpanded'[h] = accExpanded[h] /\ accHidden'[h] = accHidden[h] ]_vars

\* a click closed the open item 1 of group 2 while item 0 of group 1 stayed open
C18_Witness ==
  /\ lastOp.op = "accclick"
  /\ lastOp.arg = <<2, 1>>
  /\ accExpanded[2][1] = "false"
  /\ OpenItems(2) = {}
  /\ OpenItems(1) = {0}

\* C19: ArrowDown on trigger idx of a group of n items moves focus to trigger
\* (idx+1) mod n of the group and ArrowUp to trigger (idx-1) mod n, for
\* every n >= 1, and neither changes any panel's hidden state or any
\* trigger's aria-expanded.
C19_ArrowNavigation ==
  [][ lastOp'.op \in {"ArrowDown", "ArrowUp"} =>
        LET g == lastOp'.arg[1]
            k == lastOp'.arg[2]
            n == accSize[g]
        IN  /\ focus = <<g, k>>
            /\ focus' = <<g, IF lastOp'.op = "ArrowDown" THEN (k + 1) % n ELSE (k - 1) % n>>
            /\ focus' \in Triggers
            /\ UNCHANGED <<accExpanded, accHidden>> ]_vars

\* ArrowUp on the first trigger of a group of three moved focus to the last,
\* item 1 staying open
C19_Witness ==
  /\ lastOp.op = "ArrowUp"
  /\ lastOp.arg = <<1, 0>>
  /\ accSize[1] = 3
  /\ focus = <<1, 2>>
  /\ OpenItems(1) = {1}

\* -------------------------------------------------------- focus claims
\* C20 as stated: a trigger carries the focus-visible class exactly when it
\* has focus and the focus came to it by the keyboard (Tab or an accordion
\* arrow key) and not by a pointer press.
C20_ClassIffKeyboardFocus ==
  \A e \in Triggers :
    e \in focusVisible <=> (focus = e /\ arrival.via = "keyboard")

\* C20: a trigger carries the focus-visible class exactly when it has focus
\* and, when the focus came to it, no pointer press had happened since the
\* last Tab key (or since the page loaded); focus that came by a pointer
\* press never carries the class, and a trigger without focus never does.
C20_ClassIffNoPointerSinceTab ==
  /\ \A e \in Triggers :
       e \in focusVisible <=> (focus = e /\ ~arrival.afterPointer)
  /\ arrival.via = "pointer" => focusVisible = {}
  /\ focusVisible \subseteq {focus} \cap Triggers

\* ArrowDown moved focus from a trigger that was pressed with the pointer:
\* the focus came by the keyboard and the trigger carries no class
C20_Witness ==
  /\ lastOp.op = "ArrowDown"
  /\ lastOp.arg = <<1, 0>>
  /\ focus = <<1, 1>>
  /\ arrival = [via |-> "keyboard", afterPointer |-> TRUE]
  /\ mouseDown
  /\ focusVisible = {}
====
